---- MODULE Spec2Model ----
(***************************************************************************)
(* The lifecycle state machine of one micro-app instance (CreateApp in     *)
(* src/src/create_app.ts), the process-wide registry appInstanceMap, and   *)
(* the router entry points of src/src/sandbox/router/index.ts.             *)
(*                                                                         *)
(* Every handler of CreateApp is a pure operator over a record w that      *)
(* holds the instance's fields, the registry, the pending asynchronous     *)
(* completions and the log `out` of the effects of the running step, in    *)
(* the order in which the code produces them.  The log is not part of the  *)
(* state: a property of a step is stated over the record that the handler  *)
(* returns for the state the step starts in.  An action of the model is    *)
(* one run-to-completion task of the single-threaded event loop: a call by *)
(* the host, a signal of the source loader, one invocation of the          *)
(* execScripts callback, or the settling of one deferred hook result.      *)
(***************************************************************************)
EXTENDS Integers, Sequences, FiniteSets, Bags, TLC

\* Bounds of the model: calls of mount() and unmount() by the host, and
\* invocations of the execScripts callback for one mount.
MaxMount == 1
MaxUnmount == 2
MaxCallbacks == 2

NULL == "null"
name == "app1"
HostContainer == "c1"
KeepAliveDiv == "div"
Channels == {"html", "scripts"}
HookOutcomes == {"return", "throw", "promise"}
Settlements == {"resolve", "reject"}

VARIABLES
  state, keepAliveState, keepAliveContainer, loadSourceLevel,
  umdHookMount, umdHookUnmount, umdMode, isPrefetch, container,
  useSandbox, sandBoxActive, umdSnapshot,
  appInstanceMap,
  scriptRuns, mountResults, unmountResults,
  channels, hist,
  rawSearch, rawState, microLocation, routerHist

appVars == << state, keepAliveState, keepAliveContainer, loadSourceLevel,
              umdHookMount, umdHookUnmount, umdMode, isPrefetch, container,
              useSandbox, sandBoxActive, umdSnapshot, appInstanceMap,
              scriptRuns, mountResults, unmountResults, channels, hist >>

\* The browser: the query of the shared URL and history.state; and the
\* virtual location of every app.  routerHist is history: the router
\* operation that ran last and whether the URL held the app's parameter then.
routerVars == << rawSearch, rawState, microLocation, routerHist >>

vars == << appVars, routerVars >>

Range(s) == { s[i] : i \in 1..Len(s) }
\* The pending completions are kept as bags: which of two equal pending
\* completions runs first makes no difference.
Put(b, e) == b (+) SetToBag({e})
Take(b, e) == b (-) SetToBag({e})
Count(s, e) == Cardinality({ i \in 1..Len(s) : s[i] = e })

\* The instance, the registry and the pending completions as one record.
\* out, exc, ret and stale belong to the running step only.
Self ==
  [ state |-> state, keepAliveState |-> keepAliveState,
    keepAliveContainer |-> keepAliveContainer,
    loadSourceLevel |-> loadSourceLevel,
    umdHookMount |-> umdHookMount, umdHookUnmount |-> umdHookUnmount,
    umdMode |-> umdMode, isPrefetch |-> isPrefetch, container |-> container,
    useSandbox |-> useSandbox, sandBoxActive |-> sandBoxActive,
    umdSnapshot |-> umdSnapshot, appInstanceMap |-> appInstanceMap,
    scriptRuns |-> scriptRuns, mountResults |-> mountResults,
    unmountResults |-> unmountResults,
    out |-> << >>, exc |-> FALSE, ret |-> "undefined", stale |-> FALSE ]

Emit(w, e) == [w EXCEPT !.out = Append(@, e)]
Throw(w) == [Emit(w, "TypeError") EXCEPT !.exc = TRUE]

(***************************************************************************)
(* Collaborators of CreateApp.                                             *)
(***************************************************************************)
\* A host-facing lifecycle notification, delivered synchronously.
dispatchLifecyclesEvent(w, lifecycleName) == Emit(w, lifecycleName)

\* A sub-app-facing custom event.
dispatchCustomEventToMicroApp(w, eventName) == Emit(w, eventName)

logError(w) == Emit(w, "logError")

\* this.sandBox?.start(baseroute)
sandBoxStart(w) ==
  IF w.useSandbox THEN Emit([w EXCEPT !.sandBoxActive = TRUE], "sandbox.start") ELSE w

\* this.sandBox?.stop()
sandBoxStop(w) ==
  IF w.useSandbox THEN Emit([w EXCEPT !.sandBoxActive = FALSE], "sandbox.stop") ELSE w

\* this.sandBox?.recordUmdSnapshot()
recordUmdSnapshot(w) ==
  IF w.useSandbox THEN Emit([w EXCEPT !.umdSnapshot = TRUE], "recordUmdSnapshot") ELSE w

\* this.sandBox?.rebuildUmdSnapshot()
rebuildUmdSnapshot(w) ==
  IF w.useSandbox THEN Emit(w, "rebuildUmdSnapshot") ELSE w

(***************************************************************************)
(* CreateApp                                                               *)
(***************************************************************************)
onerror(w) == dispatchLifecyclesEvent(w, "error")

\* dispatchMountedEvent without the check for an app that was unmounted.
dispatchMountedEventUnguarded(w) ==
  dispatchLifecyclesEvent([w EXCEPT !.state = "MOUNTED"], "mounted")

dispatchMountedEvent(w) ==
  IF w.state # "UNMOUNT"
  THEN dispatchLifecyclesEvent([w EXCEPT !.state = "MOUNTED"], "mounted")
  ELSE w

\* A deferred result is left pending; its continuations run in MountHookSettle.
handleMounted(w, umdHookMountResult) ==
  LET w1 == Emit(w, "handleMounted")
  IN  IF umdHookMountResult = "promise"
      THEN [w1 EXCEPT !.mountResults = Put(@, [stale |-> w.stale])]
      ELSE dispatchMountedEvent(w1)

\* try { umdHookMountResult = this.umdHookMount() } catch (e) { logError(...) }
callUmdHookMount(w, hook) ==
  LET w1 == Emit(w, "umdHookMount")
  IN  IF hook = "throw" THEN [logError(w1) EXCEPT !.ret = "undefined"]
      ELSE IF hook = "promise" THEN [w1 EXCEPT !.ret = "promise"]
      ELSE [w1 EXCEPT !.ret = "value"]

\* getUmdLibraryHooks: the library is looked up unless the app was unmounted;
\* lib says whether the global exports the mount and unmount functions.
getUmdLibraryHooks(w, lib) == w.state # "UNMOUNT" /\ lib

\* The callback without the one-shot guard hasDispatchMountedEvent.
execScriptsCallbackUnguarded(w, run, isFinished, lib, hook) ==
  LET w0 == [w EXCEPT !.ret = "undefined"]
      w1 == IF ~w0.umdMode /\ getUmdLibraryHooks(w0, lib)
            THEN callUmdHookMount(
                   recordUmdSnapshot([w0 EXCEPT !.umdHookMount = TRUE,
                                                !.umdHookUnmount = TRUE,
                                                !.umdMode = TRUE]), hook)
            ELSE w0
      fire == isFinished \/ w1.umdMode
      w2 == IF fire THEN handleMounted(w1, w1.ret) ELSE w1
      after == [ hasDispatchMountedEvent |-> run.hasDispatchMountedEvent \/ fire,
                 calls |-> run.calls + 1,
                 stale |-> run.stale,
                 handled |-> run.handled + (IF fire THEN 1 ELSE 0) ]
  IN  [w2 EXCEPT !.scriptRuns =
         IF after.calls = MaxCallbacks THEN Take(@, run)
         ELSE Put(Take(@, run), after)]

\* One invocation of the callback that mount() hands to execScripts, for the
\* mount whose closure is run.  execScripts invokes the callback of one mount
\* at most MaxCallbacks times; a run that has made them all is forgotten.  umdHookMountResult is assigned only
\* in the invocation that detects the UMD hooks, and that invocation either
\* passes it to handleMounted or finds hasDispatchMountedEvent set, which
\* bars every later read: the closure keeps the one-shot flag only.  calls,
\* stale and handled are history: the invocations made, whether an unmount
\* came after the mount, and how often the mount called handleMounted.
execScriptsCallback(w, run, isFinished, lib, hook) ==
  LET w0 == [w EXCEPT !.ret = "undefined"]
      w1 == IF ~w0.umdMode /\ getUmdLibraryHooks(w0, lib)
            THEN callUmdHookMount(
                   recordUmdSnapshot([w0 EXCEPT !.umdHookMount = TRUE,
                                                !.umdHookUnmount = TRUE,
                                                !.umdMode = TRUE]), hook)
            ELSE w0
      fire == ~run.hasDispatchMountedEvent /\ (isFinished \/ w1.umdMode)
      w2 == IF fire THEN handleMounted(w1, w1.ret) ELSE w1
      after == [ hasDispatchMountedEvent |-> run.hasDispatchMountedEvent \/ fire,
                 calls |-> run.calls + 1,
                 stale |-> run.stale,
                 handled |-> run.handled + (IF fire THEN 1 ELSE 0) ]
  IN  [w2 EXCEPT !.scriptRuns =
         IF after.calls = MaxCallbacks THEN Take(@, run)
         ELSE Put(Take(@, run), after)]

\* execScripts(this.source.scripts, this, callback): the script set is run.
\* Without deferred scripts the callback is invoked at once with
\* isFinished = true (in.sync); every other invocation comes later, in
\* ExecScriptsCallback.
execScripts(w, in) ==
  LET run == [ hasDispatchMountedEvent |-> FALSE, calls |-> 0, stale |-> FALSE,
               handled |-> 0 ]
      w1 == [Emit(w, "execScripts") EXCEPT !.scriptRuns = Put(@, run)]
  IN  IF in.sync
      THEN execScriptsCallback(w1, run, TRUE, in.lib, in.hook)
      ELSE w1

\* mount() that runs the script set whether or not the app is in UMD mode.
mountAlwaysExecScripts(w, c, in) ==
  LET w1 == Emit([w EXCEPT !.container = IF @ = NULL THEN c ELSE @], "mount")
  IN  IF w1.loadSourceLevel # 2
      THEN [w1 EXCEPT !.state = "LOADING_SOURCE_CODE"]
      ELSE
        LET w2 == dispatchLifecyclesEvent(w1, "beforemount")
            w3 == [w2 EXCEPT !.state = "MOUNTING"]
            w4 == sandBoxStart(Emit(w3, "cloneContainer"))
        IN  execScripts(w4, in)

mount(w, c, in) ==
  LET w1 == Emit([w EXCEPT !.container = IF @ = NULL THEN c ELSE @], "mount")
  IN  IF w1.loadSourceLevel # 2
      THEN [w1 EXCEPT !.state = "LOADING_SOURCE_CODE"]
      ELSE
        LET w2 == dispatchLifecyclesEvent(w1, "beforemount")
            w3 == [w2 EXCEPT !.state = "MOUNTING"]
            w4 == sandBoxStart(Emit(w3, "cloneContainer"))
        IN  IF ~w4.umdMode
            THEN execScripts(w4, in)
            ELSE LET w5 == callUmdHookMount(rebuildUmdSnapshot(w4), in.hook)
                 IN  handleMounted(w5, w5.ret)

\* onLoad that mounts as soon as one channel has completed.
onLoadMountsEarly(w, in) ==
  LET w1 == [w EXCEPT !.loadSourceLevel = @ + 1]
  IN  IF w1.loadSourceLevel >= 1
      THEN IF w1.isPrefetch \/ w1.state = "UNMOUNT"
           THEN w1
           ELSE mount([w1 EXCEPT !.state = "LOAD_SOURCE_FINISHED"], NULL, in)
      ELSE w1

\* onLoad without the check for an app that was unmounted meanwhile.
onLoadIgnoresUnmount(w, in) ==
  LET w1 == [w EXCEPT !.loadSourceLevel = @ + 1]
  IN  IF w1.loadSourceLevel = 2
      THEN IF w1.isPrefetch
           THEN w1
           ELSE mount([w1 EXCEPT !.state = "LOAD_SOURCE_FINISHED"], NULL, in)
      ELSE w1

onLoad(w, in) ==
  LET w1 == [w EXCEPT !.loadSourceLevel = @ + 1]
  IN  IF w1.loadSourceLevel = 2
      THEN IF w1.isPrefetch \/ w1.state = "UNMOUNT"
           THEN w1
           ELSE mount([w1 EXCEPT !.state = "LOAD_SOURCE_FINISHED"], NULL, in)
      ELSE w1

\* onLoadError without the check for an app that was unmounted meanwhile.
onLoadErrorIgnoresUnmount(w) ==
  [onerror([w EXCEPT !.loadSourceLevel = -1]) EXCEPT !.state = "LOAD_SOURCE_ERROR"]

onLoadError(w) ==
  LET w1 == [w EXCEPT !.loadSourceLevel = -1]
  IN  IF w1.state # "UNMOUNT"
      THEN [onerror(w1) EXCEPT !.state = "LOAD_SOURCE_ERROR"]
      ELSE w1

actionsForCompletelyDestory(w) ==
  LET w1 == IF ~w.useSandbox /\ w.umdMode THEN Emit(w, "delete window[libraryName]") ELSE w
  IN  Emit([w1 EXCEPT !.appInstanceMap = @ \ {name}], "appInstanceMap.delete")

\* actionsForUnmount that destroys whatever its argument says.
actionsForUnmountAlwaysDestroys(w, destroy) ==
  LET w1 == sandBoxStop(dispatchLifecyclesEvent(w, "unmount"))
      w2 == actionsForCompletelyDestory(w1)
  IN  IF w2.container = NULL THEN Throw(w2)
      ELSE [Emit(w2, "container.innerHTML") EXCEPT !.container = NULL]

\* A container of a UMD app that is not null holds the cloned html, so its
\* childElementCount is not 0; reading a property of a null container, or
\* assigning its innerHTML, raises a TypeError.
actionsForUnmount(w, destroy) ==
  LET w1 == sandBoxStop(dispatchLifecyclesEvent(w, "unmount"))
      w2 == IF destroy THEN actionsForCompletelyDestory(w1)
            ELSE IF w1.umdMode
                 THEN IF w1.container = NULL THEN Throw(w1)
                      ELSE Emit(w1, "cloneContainer")
                 ELSE w1
  IN  IF w2.exc THEN w2
      ELSE IF w2.container = NULL THEN Throw(w2)
      ELSE [Emit(w2, "container.innerHTML") EXCEPT !.container = NULL]

\* A deferred result is left pending; its continuations run in UnmountHookSettle.
handleUnmounted(w, destroy, umdHookUnmountResult) ==
  IF umdHookUnmountResult = "promise"
  THEN [w EXCEPT !.unmountResults = Put(@, [destroy |-> destroy])]
  ELSE actionsForUnmount(w, destroy)

\* unmount that runs the teardown without waiting for a deferred result.
unmountTearsDownAtOnce(w, destroyArg, hook) ==
  LET destroy == IF w.state = "LOAD_SOURCE_ERROR" THEN TRUE ELSE destroyArg
      w1 == Emit([w EXCEPT !.state = "UNMOUNT", !.keepAliveState = NULL],
                 "state = UNMOUNT")
      w2 == IF w1.umdHookUnmount
            THEN LET c == Emit(w1, "umdHookUnmount")
                 IN  IF hook = "throw" THEN logError(c) ELSE c
            ELSE w1
  IN  actionsForUnmount(dispatchCustomEventToMicroApp(w2, "micro:unmount"), destroy)

\* The assignment of the state is logged: the steps after it see UNMOUNT.
unmount(w, destroyArg, hook) ==
  LET destroy == IF w.state = "LOAD_SOURCE_ERROR" THEN TRUE ELSE destroyArg
      w1 == Emit([w EXCEPT !.state = "UNMOUNT", !.keepAliveState = NULL],
                 "state = UNMOUNT")
      w2 == IF w1.umdHookUnmount
            THEN LET c == Emit(w1, "umdHookUnmount")
                 IN  IF hook = "throw" THEN logError(c) ELSE c
            ELSE w1
      umdHookUnmountResult ==
        IF w1.umdHookUnmount /\ hook = "promise" THEN "promise"
        ELSE "undefined"
      w3 == dispatchCustomEventToMicroApp(w2, "micro:unmount")
  IN  handleUnmounted(w3, destroy, umdHookUnmountResult)

\* hiddenKeepAliveApp that leaves container on the host's element.
hiddenKeepAliveAppKeepsContainer(w) ==
  LET w1 == [w EXCEPT !.keepAliveState = "KEEP_ALIVE_HIDDEN"]
      w2 == dispatchLifecyclesEvent(w1, "afterhidden")
      w3 == dispatchCustomEventToMicroApp(w2, "micro:appstate-change")
  IN  Emit([w3 EXCEPT !.keepAliveContainer =
              IF @ = NULL THEN KeepAliveDiv ELSE @], "cloneContainer")

hiddenKeepAliveApp(w) ==
  LET w1 == [w EXCEPT !.keepAliveState = "KEEP_ALIVE_HIDDEN"]
      w2 == dispatchLifecyclesEvent(w1, "afterhidden")
      w3 == dispatchCustomEventToMicroApp(w2, "micro:appstate-change")
      w4 == Emit([w3 EXCEPT !.keepAliveContainer =
                     IF @ = NULL THEN KeepAliveDiv ELSE @], "cloneContainer")
  IN  [w4 EXCEPT !.container = w4.keepAliveContainer]

showKeepAliveApp(w, c) ==
  LET w1 == [w EXCEPT !.keepAliveState = "KEEP_ALIVE_SHOW"]
      w2 == [Emit(w1, "cloneContainer") EXCEPT !.container = c]
      w3 == dispatchLifecyclesEvent(w2, "aftershow")
  IN  dispatchCustomEventToMicroApp(w3, "micro:appstate-change")

\* umdHookMountResult.then(() => this.dispatchMountedEvent())
\*                   .catch((e) => this.onerror(e))
\* The continuations with the rejection guarded like the resolution.
mountResultSettledGuarded(w, outcome) ==
  IF outcome = "resolve" THEN dispatchMountedEvent(w)
  ELSE IF w.state # "UNMOUNT" THEN onerror(w) ELSE w

mountResultSettled(w, outcome) ==
  IF outcome = "resolve" THEN dispatchMountedEvent(w) ELSE onerror(w)

\* The continuation without the catch handler: a rejection tears nothing down.
unmountResultSettledNoCatch(w, destroy, outcome) ==
  IF outcome = "resolve" THEN actionsForUnmount(w, destroy) ELSE w

\* umdHookUnmountResult.then(() => this.actionsForUnmount(destroy))
\*                     .catch(() => this.actionsForUnmount(destroy))
\* The catch handler also receives what the then handler throws.
unmountResultSettled(w, destroy, outcome) ==
  LET w1 == actionsForUnmount(w, destroy)
  IN  IF outcome = "resolve" /\ w1.exc
      THEN actionsForUnmount([w1 EXCEPT !.exc = FALSE], destroy)
      ELSE w1

getAllApps(w) == w.appInstanceMap

getActiveApps(w) ==
  { n \in w.appInstanceMap : w.state # "UNMOUNT" /\ ~w.isPrefetch }

(***************************************************************************)
(* The router (src/src/sandbox/router/index.ts).                           *)
(*                                                                         *)
(* A string is a sequence of characters.  The query of the shared URL is   *)
(* the sequence of its parameters; the parameter keyed by an app's name    *)
(* carries the app's encoded path.  history.state is the host's own        *)
(* payload and microAppState, which maps an app's name to its entry.       *)
(* The operations work on a record r of the browser's query and state and  *)
(* the virtual locations.                                                  *)
(***************************************************************************)
Apps == {"A", "B"}

\* The characters that encodeMicroPath escapes.
Escapes ==
  [ c \in {"?", "#", "=", "&"} |->
      CASE c = "?" -> << "%", "3", "F" >>
        [] c = "#" -> << "%", "2", "3" >>
        [] c = "=" -> << "%", "3", "D" >>
        [] c = "&" -> << "%", "2", "6" >> ]

RECURSIVE encodeMicroPath(_)
encodeMicroPath(path) ==
  IF path = << >> THEN << >>
  ELSE (IF Head(path) \in DOMAIN Escapes THEN Escapes[Head(path)] ELSE << Head(path) >>)
       \o encodeMicroPath(Tail(path))

RECURSIVE decodeMicroPath(_)
decodeMicroPath(path) ==
  IF path = << >> THEN << >>
  ELSE IF Head(path) = "%" /\ Len(path) >= 3
            /\ \E c \in DOMAIN Escapes : Escapes[c] = SubSeq(path, 1, 3)
       THEN << CHOOSE c \in DOMAIN Escapes : Escapes[c] = SubSeq(path, 1, 3) >>
            \o decodeMicroPath(SubSeq(path, 4, Len(path)))
       ELSE << Head(path) >> \o decodeMicroPath(Tail(path))

\* The place of the first c in s, Len(s) + 1 when s has none.
IndexOf(s, c) ==
  IF \E i \in 1..Len(s) : s[i] = c
  THEN CHOOSE i \in 1..Len(s) : s[i] = c /\ \A j \in 1..(i - 1) : s[j] # c
  ELSE Len(s) + 1

\* createURL(path): the pathname, the search and the hash of a path.
createURL(path) ==
  LET h == IndexOf(path, "#")
      q == IF IndexOf(path, "?") < h THEN IndexOf(path, "?") ELSE h
  IN  [ pathname |-> SubSeq(path, 1, q - 1),
        search |-> SubSeq(path, q, h - 1),
        hash |-> SubSeq(path, h, Len(path)) ]

HasQuery(query, key) == \E i \in 1..Len(query) : query[i].key = key

\* null where a string is expected: no sequence of characters equals it.
NoPath == << NULL >>

QueryValue(query, key) ==
  IF HasQuery(query, key)
  THEN query[CHOOSE i \in 1..Len(query) : query[i].key = key].value
  ELSE NoPath

\* getMicroPathFromURL(appName): the decoded path of the app in the URL.
getMicroPathFromURL(r, appName) ==
  IF HasQuery(r.search, appName)
  THEN decodeMicroPath(QueryValue(r.search, appName))
  ELSE NoPath

\* setMicroPathToURL(appName, microLocation): the URL with the app's
\* parameter set to its encoded virtual location.
setMicroPathToURL(r, appName) ==
  LET l == r.loc[appName]
      encodedMicroPath == encodeMicroPath(l.pathname \o l.search \o l.hash)
      search ==
        IF HasQuery(r.search, appName)
        THEN [ i \in 1..Len(r.search) |->
                 IF r.search[i].key = appName
                 THEN [ key |-> appName, value |-> encodedMicroPath ]
                 ELSE r.search[i] ]
        ELSE Append(r.search, [ key |-> appName, value |-> encodedMicroPath ])
  IN  [ fullPath |-> search, searchHash |-> search ]

\* removeMicroPathFromURL(appName): the URL without the app's parameter.
removeMicroPathFromURL(r, appName) ==
  LET keep(e) == e.key # appName
  IN  SelectSeq(r.search, keep)

\* microAppState without an entry for an app.
NoEntry == [ present |-> FALSE, state |-> NULL ]

\* setMicroState(appName, rawState, microState, base, searchHash)
setMicroState(appName, state0, microState, url, searchHash) ==
  [ hostState |-> state0.hostState,
    microAppState |->
      [ a \in Apps |-> IF a = appName
                       THEN [ present |-> TRUE, state |-> microState ]
                       ELSE state0.microAppState[a] ] ]

\* removeMicroState(appName, rawState, url)
removeMicroState(appName, state0, url) ==
  [ state0 EXCEPT !.microAppState[appName] = NoEntry ]

\* updateLocation(appName, path, base, microLocation)
updateLocation(r, appName, path, url) ==
  [ r EXCEPT !.loc[appName] = createURL(path) ]

\* updateBrowserURL(state, fullPath): history.replaceState(state, '', fullPath)
updateBrowserURL(r, state0, fullPath) ==
  [ r EXCEPT !.state = state0, !.search = fullPath, !.replaced = @ + 1 ]

\* history.state of a page that has set none.
NoHistoryState == [ hostState |-> NULL, microAppState |-> [ a \in Apps |-> NoEntry ] ]

\* The export that builds the new state from nothing instead of history.state.
updateBrowserURLWithLocationFromNoState(r, appName, url) ==
  LET setMicroPathResult == setMicroPathToURL(r, appName)
  IN  updateBrowserURL(r,
        setMicroState(appName, NoHistoryState, NULL, url, setMicroPathResult.searchHash),
        setMicroPathResult.fullPath)

updateBrowserURLWithLocation(r, appName, url) ==
  LET setMicroPathResult == setMicroPathToURL(r, appName)
  IN  updateBrowserURL(r,
        setMicroState(appName, r.state, NULL, url, setMicroPathResult.searchHash),
        setMicroPathResult.fullPath)

\* The start that exports the virtual location whatever the URL holds.
initRouteStateWithURLAlwaysExports(r, appName, url) ==
  updateBrowserURLWithLocation(r, appName, url)

\* if (microPath): null and the empty string are falsy.
initRouteStateWithURL(r, appName, url) ==
  LET microPath == getMicroPathFromURL(r, appName)
  IN  IF microPath # NoPath /\ microPath # << >>
      THEN updateLocation(r, appName, microPath, url)
      ELSE updateBrowserURLWithLocation(r, appName, url)

removeStateAndPathFromBrowser(r, appName, url) ==
  updateBrowserURL(r, removeMicroState(appName, r.state, url),
                   removeMicroPathFromURL(r, appName))

\* The clearing that takes keepRouteState to keep the browser's trace too.
clearRouteStateFromURLKeepsTrace(r, appName, url, keepRouteState) ==
  IF keepRouteState THEN r
  ELSE LET u == createURL(url)
       IN  removeStateAndPathFromBrowser(
             updateLocation(r, appName, u.pathname \o u.search \o u.hash, url),
             appName, url)

clearRouteStateFromURL(r, appName, url, keepRouteState) ==
  LET r1 == IF ~keepRouteState
            THEN LET u == createURL(url)
                 IN  updateLocation(r, appName, u.pathname \o u.search \o u.hash, url)
            ELSE r
  IN  removeStateAndPathFromBrowser(r1, appName, url)

(***************************************************************************)
(* The state machine                                                       *)
(***************************************************************************)
Commit(w) ==
  /\ state' = w.state
  /\ keepAliveState' = w.keepAliveState
  /\ keepAliveContainer' = w.keepAliveContainer
  /\ loadSourceLevel' = w.loadSourceLevel
  /\ umdHookMount' = w.umdHookMount
  /\ umdHookUnmount' = w.umdHookUnmount
  /\ umdMode' = w.umdMode
  /\ isPrefetch' = w.isPrefetch
  /\ container' = w.container
  /\ useSandbox' = w.useSandbox
  /\ sandBoxActive' = w.sandBoxActive
  /\ umdSnapshot' = w.umdSnapshot
  /\ appInstanceMap' = w.appInstanceMap
  /\ scriptRuns' = w.scriptRuns
  /\ mountResults' = w.mountResults
  /\ unmountResults' = w.unmountResults
  /\ UNCHANGED routerVars

\* An unmount marks the completions of earlier mounts that are still pending.
Cancel(b) ==
  LET S == BagToSet(b)
      T == { [e EXCEPT !.stale = TRUE] : e \in S }
  IN  [ e \in T |-> (IF e \in S THEN b[e] ELSE 0)
                    + (IF [e EXCEPT !.stale = FALSE] \in S
                       THEN b[[e EXCEPT !.stale = FALSE]] ELSE 0) ]

\* The final teardown as the host can observe it at the end of a step.
TeardownObserved(w, destroy) ==
  /\ "unmount" \in Range(w.out)
  /\ w.useSandbox => ("sandbox.stop" \in Range(w.out) /\ ~w.sandBoxActive)
  /\ w.container = NULL
  /\ destroy => name \notin w.appInstanceMap

\* What the environment decides during a step: whether execScripts invokes
\* the callback at once (sync), whether the global exports the UMD hooks by
\* then (lib), and how a UMD hook that is called ends (hook).  Only the
\* choices that the step can read are enumerated.
NoInput == [ sync |-> FALSE, lib |-> FALSE, hook |-> "return" ]

CallbackInputs ==
  IF umdMode \/ state = "UNMOUNT"
  THEN {NoInput}
  ELSE {NoInput} \cup { [ sync |-> FALSE, lib |-> TRUE, hook |-> h ] : h \in HookOutcomes }

MountInputs(level) ==
  IF level # 2 THEN {NoInput}
  ELSE IF umdMode
       THEN { [ sync |-> FALSE, lib |-> FALSE, hook |-> h ] : h \in HookOutcomes }
       ELSE {NoInput}
            \cup { [ sync |-> TRUE, lib |-> FALSE, hook |-> "return" ] }
            \cup { [ sync |-> TRUE, lib |-> TRUE, hook |-> h ] : h \in HookOutcomes }

OnLoadInputs ==
  IF isPrefetch \/ state = "UNMOUNT" THEN {NoInput} ELSE MountInputs(loadSourceLevel + 1)

UnmountInputs == IF umdHookUnmount THEN HookOutcomes ELSE {"return"}

\* After construction: loadSourceCode has run and the caller has put the
\* instance into the registry.  A prefetched app has no container yet.
AppInit ==
  /\ state = "LOADING_SOURCE_CODE"
  /\ keepAliveState = NULL
  /\ keepAliveContainer = NULL
  /\ loadSourceLevel = 0
  /\ umdHookMount = FALSE
  /\ umdHookUnmount = FALSE
  /\ umdMode = FALSE
  /\ isPrefetch \in BOOLEAN
  /\ container = IF isPrefetch THEN NULL ELSE HostContainer
  /\ useSandbox \in BOOLEAN
  /\ sandBoxActive = FALSE
  /\ umdSnapshot = FALSE
  /\ appInstanceMap = {name}
  /\ scriptRuns = EmptyBag
  /\ mountResults = EmptyBag
  /\ unmountResults = EmptyBag
  /\ channels = [ ch \in Channels |-> "pending" ]
  /\ hist = [ nMount |-> 0, nUnmount |-> 0, mountsFromOnLoad |-> 0,
              destroyedEarly |-> FALSE, loadError |-> FALSE, tornDown |-> 0 ]

\* The entry URL of each app, the paths a sub-app navigates to, and the
\* parameter of the host page in the shared URL.
Url == [ a \in Apps |-> IF a = "A" THEN << "/" >> ELSE << "/", "b", "?", "x" >> ]
VirtualPaths == { << "/" >>, << "/", "d", "?", "i" >>, << "/", "a", "#", "h" >> }
HostQuery == [ key |-> "q", value |-> << "1" >> ]

\* The page as the browser opened it: the URL may position an app already.
InitialSearches ==
  { << >>, << HostQuery >>,
    << [ key |-> "A", value |-> encodeMicroPath(<< "/", "d", "?", "i" >>) ], HostQuery >>,
    << HostQuery, [ key |-> "B", value |-> << >> ] >> }

RouterSelf ==
  [ search |-> rawSearch, state |-> rawState, loc |-> microLocation, replaced |-> 0 ]

RouterCommit(r) ==
  /\ rawSearch' = r.search
  /\ rawState' = r.state
  /\ microLocation' = r.loc
  /\ UNCHANGED appVars

NoRouterOp == [ op |-> "none", app |-> "none", keepRouteState |-> FALSE, had |-> FALSE ]

RouterOp(op, a, keepRouteState) ==
  [ op |-> op, app |-> a, keepRouteState |-> keepRouteState,
    had |-> HasQuery(rawSearch, a) ]

Init ==
  /\ AppInit
  /\ rawSearch = << HostQuery >>
  /\ rawState = NoHistoryState
  /\ microLocation = [ a \in Apps |-> createURL(Url[a]) ]
  /\ routerHist = NoRouterOp

\* Two apps that are active, on a page the browser has just opened.
RouterInit ==
  /\ AppInit
  /\ ~isPrefetch
  /\ useSandbox
  /\ rawSearch \in InitialSearches
  /\ rawState \in { NoHistoryState, [ NoHistoryState EXCEPT !.hostState = "host" ] }
  /\ microLocation = [ a \in Apps |-> createURL(Url[a]) ]
  /\ routerHist = NoRouterOp

\* The record each operation returns for the current state.
OnLoadResult(in) == onLoad(Self, in)

OnLoadErrorResult == onLoadError(Self)

MountResult(in) == mount(Self, HostContainer, in)

\* The completions of earlier mounts that are still pending are marked stale.
UnmountResult(destroy, hook) ==
  LET w == unmount(Self, destroy, hook)
  IN  [w EXCEPT !.scriptRuns = Cancel(@), !.mountResults = Cancel(@)]

CallbackResult(run, isFinished, in) ==
  execScriptsCallback([Self EXCEPT !.stale = run.stale], run, isFinished, in.lib, in.hook)

MountSettleResult(p, outcome) ==
  mountResultSettled([Self EXCEPT !.mountResults = Take(@, p)], outcome)

UnmountSettleResult(p, outcome) ==
  unmountResultSettled([Self EXCEPT !.unmountResults = Take(@, p)], p.destroy, outcome)

HiddenResult == hiddenKeepAliveApp(Self)

ShowResult == showKeepAliveApp(Self, HostContainer)

Pending(ch) == channels[ch] = "pending"

\* Each action binds the record its handler returns once and commits it.

\* The source loader signals the completion of one channel.
OnLoad ==
  \E ch \in Channels, in \in OnLoadInputs :
    /\ Pending(ch)
    /\ \E w \in {OnLoadResult(in)} :
         /\ Commit(w)
         /\ hist' = [hist EXCEPT !.mountsFromOnLoad = @ + Count(w.out, "mount")]
    /\ channels' = [channels EXCEPT ![ch] = "loaded"]

\* The source loader signals the failure of one channel.
OnLoadError ==
  \E ch \in Channels :
    /\ Pending(ch)
    /\ \E w \in {OnLoadErrorResult} : Commit(w)
    /\ hist' = [hist EXCEPT !.loadError = @ \/ state # "UNMOUNT"]
    /\ channels' = [channels EXCEPT ![ch] = "failed"]

\* The host mounts the instance it finds in the registry.
Mount ==
  \E in \in MountInputs(loadSourceLevel) :
    /\ name \in appInstanceMap
    /\ hist.nMount < MaxMount
    /\ \E w \in {MountResult(in)} : Commit(w)
    /\ hist' = [hist EXCEPT !.nMount = @ + 1]
    /\ UNCHANGED channels

\* The host unmounts the instance it finds in the registry.
Unmount ==
  \E destroy \in BOOLEAN, hook \in UnmountInputs :
    /\ name \in appInstanceMap
    /\ hist.nUnmount < MaxUnmount
    /\ \E w \in {UnmountResult(destroy, hook)} :
         /\ Commit(w)
         /\ hist' = [hist EXCEPT
               !.nUnmount = @ + 1,
               !.destroyedEarly = @ \/ (destroy /\ loadSourceLevel < 2),
               !.tornDown = IF w.unmountResults = unmountResults
                               /\ TeardownObserved(w, destroy)
                            THEN @ + 1 ELSE @]
    /\ UNCHANGED channels

\* execScripts invokes the callback of one mount.
ExecScriptsCallback ==
  \E run \in BagToSet(scriptRuns), isFinished \in BOOLEAN, in \in CallbackInputs :
    /\ \E w \in {CallbackResult(run, isFinished, in)} : Commit(w)
    /\ UNCHANGED << channels, hist >>

\* The deferred result of a UMD mount hook settles.
MountHookSettle ==
  \E p \in BagToSet(mountResults), outcome \in Settlements :
    /\ \E w \in {MountSettleResult(p, outcome)} : Commit(w)
    /\ UNCHANGED << channels, hist >>

\* The deferred result of a UMD unmount hook settles.
UnmountHookSettle ==
  \E p \in BagToSet(unmountResults), outcome \in Settlements :
    /\ \E w \in {UnmountSettleResult(p, outcome)} :
         /\ Commit(w)
         /\ hist' = [hist EXCEPT !.tornDown =
                       IF TeardownObserved(w, p.destroy) THEN @ + 1 ELSE @]
    /\ UNCHANGED channels

\* The host hides a keep-alive app whose content is attached.
HiddenKeepAliveApp ==
  /\ name \in appInstanceMap
  /\ container # NULL
  /\ keepAliveState # "KEEP_ALIVE_HIDDEN"
  /\ \E w \in {HiddenResult} : Commit(w)
  /\ UNCHANGED << channels, hist >>

\* The host shows a hidden keep-alive app again.
ShowKeepAliveApp ==
  /\ name \in appInstanceMap
  /\ keepAliveState = "KEEP_ALIVE_HIDDEN"
  /\ \E w \in {ShowResult} : Commit(w)
  /\ UNCHANGED << channels, hist >>

Next ==
  \/ OnLoad
  \/ OnLoadError
  \/ Mount
  \/ Unmount
  \/ ExecScriptsCallback
  \/ MountHookSettle
  \/ UnmountHookSettle
  \/ HiddenKeepAliveApp
  \/ ShowKeepAliveApp

Spec == Init /\ [][Next]_vars

\* A deferred result of the unmount hook that is pending settles at last.
LiveSpec == Spec /\ WF_vars(UnmountHookSettle)

\* The record each router operation returns for the current state.
InitRouteResult(a) == initRouteStateWithURL(RouterSelf, a, Url[a])

UpdateBrowserResult(a) == updateBrowserURLWithLocation(RouterSelf, a, Url[a])

ClearRouteResult(a, keepRouteState) ==
  clearRouteStateFromURL(RouterSelf, a, Url[a], keepRouteState)

RemoveStateResult(a) == removeStateAndPathFromBrowser(RouterSelf, a, Url[a])

\* An app starts, or a hidden keep-alive app is shown again.
InitRouteStateWithURL ==
  \E a \in Apps : \E r \in {InitRouteResult(a)} :
    /\ RouterCommit(r)
    /\ routerHist' = RouterOp("initRouteStateWithURL", a, FALSE)

\* An app exports its virtual location.
UpdateBrowserURLWithLocation ==
  \E a \in Apps : \E r \in {UpdateBrowserResult(a)} :
    /\ RouterCommit(r)
    /\ routerHist' = RouterOp("updateBrowserURLWithLocation", a, FALSE)

\* An app stops or is hidden.
ClearRouteStateFromURL ==
  \E a \in Apps, keepRouteState \in BOOLEAN :
    \E r \in {ClearRouteResult(a, keepRouteState)} :
      /\ RouterCommit(r)
      /\ routerHist' = RouterOp("clearRouteStateFromURL", a, keepRouteState)

\* An app is unmounted.
RemoveStateAndPathFromBrowser ==
  \E a \in Apps : \E r \in {RemoveStateResult(a)} :
    /\ RouterCommit(r)
    /\ routerHist' = RouterOp("removeStateAndPathFromBrowser", a, FALSE)

\* A sub-app navigates: its virtual location changes.
Navigate ==
  \E a \in Apps, path \in VirtualPaths :
    /\ microLocation' = [ microLocation EXCEPT ![a] = createURL(path) ]
    /\ routerHist' = RouterOp("navigate", a, FALSE)
    /\ UNCHANGED << rawSearch, rawState, appVars >>

RouterNext ==
  \/ InitRouteStateWithURL
  \/ UpdateBrowserURLWithLocation
  \/ ClearRouteStateFromURL
  \/ RemoveStateAndPathFromBrowser
  \/ Navigate

RouterSpec == RouterInit /\ [][RouterNext]_vars

(***************************************************************************)
(* Properties                                                              *)
(***************************************************************************)
Has(w, e) == e \in Range(w.out)

AllLoaded == \A ch \in Channels : channels[ch] = "loaded"
SomePending == \E ch \in Channels : Pending(ch)

\* The record every operation that the code allows in the current state
\* returns, with the operation's name.  The host reaches the instance through
\* the registry; the bounds on the host's calls play no part.
HostSteps ==
  IF name \in appInstanceMap
  THEN { [ op |-> "mount", w |-> MountResult(in) ] : in \in MountInputs(loadSourceLevel) }
       \cup { [ op |-> "unmount", w |-> UnmountResult(d, h) ] :
                d \in BOOLEAN, h \in UnmountInputs }
       \cup { [ op |-> "hiddenKeepAliveApp", w |-> HiddenResult ] :
                x \in IF container # NULL /\ keepAliveState # "KEEP_ALIVE_HIDDEN"
                      THEN {1} ELSE {} }
       \cup { [ op |-> "showKeepAliveApp", w |-> ShowResult ] :
                x \in IF keepAliveState = "KEEP_ALIVE_HIDDEN" THEN {1} ELSE {} }
  ELSE {}

LoaderSteps ==
  IF SomePending
  THEN { [ op |-> "onLoad", w |-> OnLoadResult(in) ] : in \in OnLoadInputs }
       \cup { [ op |-> "onLoadError", w |-> OnLoadErrorResult ] }
  ELSE {}

CompletionSteps ==
  { [ op |-> "execScriptsCallback", w |-> CallbackResult(run, f, in) ] :
      run \in BagToSet(scriptRuns), f \in BOOLEAN, in \in CallbackInputs }
  \cup { [ op |-> "mountHookSettle", w |-> MountSettleResult(p, o) ] :
           p \in BagToSet(mountResults), o \in Settlements }
  \cup { [ op |-> "unmountHookSettle", w |-> UnmountSettleResult(p, o) ] :
           p \in BagToSet(unmountResults), o \in Settlements }

Steps == HostSteps \cup LoaderSteps \cup CompletionSteps

\* C1: for an instance that is not prefetch-only and was not unmounted, onLoad
\* enters mount exactly once, in the call that brings loadSourceLevel to 2,
\* whichever channel signals first; while a channel has not completed (one
\* onLoad only, or an onLoadError) no operation dispatches beforemount or
\* sets the state to MOUNTING.
C1_MountOnSecondOnLoad ==
  /\ hist.mountsFromOnLoad <= 1
  /\ (loadSourceLevel = 2) <=> AllLoaded
  /\ (AllLoaded /\ ~isPrefetch /\ hist.nUnmount = 0) => hist.mountsFromOnLoad = 1
  /\ ~AllLoaded => state \notin {"MOUNTING", "MOUNTED"}
  /\ SomePending /\ ~isPrefetch /\ state # "UNMOUNT" =>
       \A in \in OnLoadInputs :
         LET w == OnLoadResult(in)
         IN  /\ Count(w.out, "mount") = (IF w.loadSourceLevel = 2 THEN 1 ELSE 0)
             /\ Count(w.out, "beforemount") = (IF w.loadSourceLevel = 2 THEN 1 ELSE 0)
             /\ w.loadSourceLevel = 2 => loadSourceLevel = 1
  /\ \A s \in Steps :
       s.w.loadSourceLevel # 2 =>
         ~Has(s.w, "beforemount") /\ s.w.state \notin {"MOUNTING", "MOUNTED"}

\* Scripts signalled first, the HTML second, and onLoad has mounted the app.
C1_Witness ==
  /\ hist.mountsFromOnLoad = 1
  /\ hist.nMount = 0
  /\ hist.nUnmount = 0
  /\ state \in {"MOUNTING", "MOUNTED"}

\* C2: after unmount(true) was called while loadSourceLevel < 2, the state
\* stays UNMOUNT, and the onLoad that brings loadSourceLevel to 2 calls no
\* mount and dispatches neither beforemount nor mounted.
C2_NoMountAfterEarlyDestroy ==
  hist.destroyedEarly =>
    /\ state = "UNMOUNT"
    /\ \A s \in Steps :
         /\ s.w.state = "UNMOUNT"
         /\ ~Has(s.w, "mount")
         /\ ~Has(s.w, "beforemount")
         /\ ~Has(s.w, "mounted")

\* The second onLoad has arrived after the early unmount(true).
C2_Witness ==
  /\ hist.destroyedEarly
  /\ loadSourceLevel = 2
  /\ state = "UNMOUNT"
  /\ name \notin appInstanceMap

\* C3: a mount completion that was pending when unmount was called (a
\* deferred result of the mount hook, a callback of execScripts) dispatches
\* no mounted notification and does not set the state to MOUNTED when it
\* arrives, whatever was called on the instance in between.
C3_StaleCompletionHasNoEffect ==
  /\ \A p \in BagToSet(mountResults), o \in Settlements :
       p.stale => ~Has(MountSettleResult(p, o), "mounted")
  /\ \A run \in BagToSet(scriptRuns), f \in BOOLEAN, in \in CallbackInputs :
       run.stale => ~Has(CallbackResult(run, f, in), "mounted")

\* C4: the callback of one mount calls handleMounted exactly once, in its
\* first invocation that reports all scripts finished or finds the app in
\* UMD mode, and in no later invocation; one invocation dispatches at most
\* one mounted notification.
C4_MountedHandledOnce ==
  /\ \A run \in BagToSet(scriptRuns) :
       /\ run.handled <= 1
       /\ run.hasDispatchMountedEvent <=> run.handled = 1
  /\ \A run \in BagToSet(scriptRuns), f \in BOOLEAN, in \in CallbackInputs :
       LET w == CallbackResult(run, f, in)
       IN  /\ Count(w.out, "handleMounted") =
                (IF run.handled = 0 /\ (f \/ w.umdMode) THEN 1 ELSE 0)
           /\ Count(w.out, "mounted") <= Count(w.out, "handleMounted")
  /\ \A s \in Steps :
       s.op \in {"mount", "onLoad"} => Count(s.w.out, "handleMounted") <= 1

\* A mount has handled its mounted event and its callback can come again.
C4_Witness ==
  \E run \in BagToSet(scriptRuns) :
    run.hasDispatchMountedEvent /\ run.calls >= 1 /\ state = "MOUNTED"

\* C5: once umdMode is true it stays true, the resources are loaded, and no
\* operation executes the script set again: every mount() restores the
\* snapshot that the sandbox recorded and calls the cached mount hook once.
C5_UmdRemountSkipsScripts ==
  umdMode =>
    /\ loadSourceLevel = 2
    /\ umdHookMount
    /\ useSandbox => umdSnapshot
    /\ \A s \in Steps :
         /\ s.w.umdMode
         /\ ~Has(s.w, "execScripts")
         /\ s.w.scriptRuns = scriptRuns \/ s.op \in {"execScriptsCallback", "unmount"}
         /\ Count(s.w.out, "umdHookMount") = (IF s.op = "mount" THEN 1 ELSE 0)
         /\ Count(s.w.out, "rebuildUmdSnapshot") =
              (IF s.op = "mount" /\ useSandbox THEN 1 ELSE 0)

\* A UMD app was unmounted and is mounted again.
C5_Witness ==
  /\ umdMode
  /\ hist.nUnmount >= 1
  /\ hist.nMount >= 1
  /\ state \in {"MOUNTING", "MOUNTED"}
  /\ scriptRuns = EmptyBag

\* C6: every unmount of an app with a UMD unmount hook ends in the final
\* teardown (the unmount notification to the host, the sandbox stopped, the
\* container released, the registry entry removed when destroying): at once
\* when the hook returns or throws, and when the deferred result settles,
\* resolved or rejected, which it does at last.
C6_TeardownAlwaysCompletes ==
  /\ [](\A d \in BOOLEAN, h \in UnmountInputs :
          (name \in appInstanceMap /\ umdHookUnmount /\ h # "promise")
            => TeardownObserved(UnmountResult(d, h), d))
  /\ [](\A p \in BagToSet(unmountResults), o \in Settlements :
          TeardownObserved(UnmountSettleResult(p, o), p.destroy))
  /\ \A n \in 1..MaxUnmount : (hist.nUnmount = n) ~> (hist.tornDown >= n)

\* Every unmount of a UMD app has been torn down.
C6_Witness ==
  /\ umdHookUnmount
  /\ hist.nUnmount = 2
  /\ hist.tornDown = 2
  /\ unmountResults = EmptyBag
  /\ container = NULL

\* C7: once onLoadError has reported an error for an app that was not
\* unmounted, every later unmount removes the registry entry.
C7_LoadErrorForcesDestroy ==
  (hist.loadError /\ name \in appInstanceMap) =>
    \A d \in BOOLEAN, h \in UnmountInputs :
      name \notin UnmountResult(d, h).appInstanceMap

\* C8: onLoadError in state UNMOUNT changes loadSourceLevel to -1 and nothing
\* else, and dispatches no error notification; in any other state it
\* dispatches one error notification and sets the state to LOAD_SOURCE_ERROR.
C8_LateLoadError ==
  LET w == OnLoadErrorResult
  IN  /\ w.loadSourceLevel = -1
      /\ state = "UNMOUNT" =>
           /\ w = [Self EXCEPT !.loadSourceLevel = -1]
           /\ ~Has(w, "error")
      /\ state # "UNMOUNT" =>
           /\ w.state = "LOAD_SOURCE_ERROR"
           /\ Count(w.out, "error") = 1

\* An onLoadError has arrived after the unmount and reported nothing.
C8_Witness ==
  /\ state = "UNMOUNT"
  /\ loadSourceLevel = -1
  /\ ~hist.loadError
  /\ \E ch \in Channels : channels[ch] = "failed"

\* C9: the registry entry is removed by a teardown that destroys (unmount(true)
\* or unmount in state LOAD_SOURCE_ERROR, at once or when the deferred
\* result of the hook settles) and by nothing else; unmount(false) in another
\* state keeps the entry, which getAllApps returns and getActiveApps does not.
C9_RegistryRemovedOnlyByDestroy ==
  /\ \A d \in BOOLEAN, h \in UnmountInputs :
       name \in appInstanceMap =>
         LET w == UnmountResult(d, h)
             destroy == d \/ state = "LOAD_SOURCE_ERROR"
             deferred == w.unmountResults # unmountResults
         IN  /\ (destroy /\ ~deferred) => name \notin getAllApps(w)
             /\ (destroy /\ deferred) => [destroy |-> TRUE] \in BagToSet(w.unmountResults)
             /\ ~destroy => name \in getAllApps(w) /\ name \notin getActiveApps(w)
  /\ \A p \in BagToSet(unmountResults), o \in Settlements :
       LET w == UnmountSettleResult(p, o)
       IN  IF p.destroy THEN name \notin getAllApps(w)
           ELSE getAllApps(w) = appInstanceMap
  /\ \A s \in Steps :
       s.op \notin {"unmount", "unmountHookSettle"} => getAllApps(s.w) = appInstanceMap

\* unmount(false) has run its teardown and the entry is still registered.
C9_Witness ==
  /\ hist.nUnmount >= 1
  /\ hist.tornDown = hist.nUnmount
  /\ state = "UNMOUNT"
  /\ name \in getAllApps(Self)
  /\ name \notin getActiveApps(Self)

\* The record every router operation called for app a returns.
RouterSteps(a) ==
  { InitRouteResult(a), UpdateBrowserResult(a), RemoveStateResult(a) }
  \cup { ClearRouteResult(a, k) : k \in BOOLEAN }

\* C10: for two apps a and b, every router operation called for a
\* (updateBrowserURLWithLocation, initRouteStateWithURL,
\* clearRouteStateFromURL, removeStateAndPathFromBrowser) leaves the
\* parameter of b in the shared URL and the entry of b in history.state as
\* they were.
C10_RouterNamespaceIsolation ==
  \A a \in Apps : \A b \in Apps \ {a} : \A r \in RouterSteps(a) :
    /\ HasQuery(r.search, b) <=> HasQuery(rawSearch, b)
    /\ QueryValue(r.search, b) = QueryValue(rawSearch, b)
    /\ r.state.microAppState[b] = rawState.microAppState[b]

\* Both apps have exported a location of their own into the URL and the
\* state, and the two parameters differ.
C10_Witness ==
  /\ QueryValue(rawSearch, "A") = encodeMicroPath(<< "/", "a", "#", "h" >>)
  /\ QueryValue(rawSearch, "B") = encodeMicroPath(<< "/", "d", "?", "i" >>)
  /\ rawState.microAppState["A"].present
  /\ rawState.microAppState["B"].present

\* The pathname, search and hash of a location as one path.
FullPath(l) == l.pathname \o l.search \o l.hash

\* C11: clearRouteStateFromURL for app a always removes the parameter of a
\* from the shared URL and the entry of a from history.state; with
\* keepRouteState it leaves the virtual location of a as it was, without it
\* the virtual location becomes the pathname, search and hash of the url of a.
C11_ClearRouteState ==
  \A a \in Apps, k \in BOOLEAN :
    LET r == ClearRouteResult(a, k)
    IN  /\ ~HasQuery(r.search, a)
        /\ ~r.state.microAppState[a].present
        /\ k => r.loc[a] = microLocation[a]
        /\ ~k => /\ FullPath(r.loc[a]) = Url[a]
                  /\ r.loc[a].pathname = SubSeq(Url[a], 1, Len(r.loc[a].pathname))
                  /\ r.loc[a].pathname # << >>
                  /\ "?" \notin Range(r.loc[a].pathname)
                  /\ r.loc[a].search # << >> => Head(r.loc[a].search) = "?"
                  /\ r.loc[a].hash = << >>

\* A was cleared with keepRouteState while the URL held its parameter: the
\* parameter is gone and A is still where it had navigated to.
C11_Witness ==
  /\ routerHist = [ op |-> "clearRouteStateFromURL", app |-> "A",
                    keepRouteState |-> TRUE, had |-> TRUE ]
  /\ ~HasQuery(rawSearch, "A")
  /\ ~rawState.microAppState["A"].present
  /\ microLocation["A"] # createURL(Url["A"])
  /\ HasQuery(rawSearch, "B")

\* The URL holds a path for app a: a parameter with an empty value encodes
\* no location (a pathname is never empty) and the code reads it as none.
HasMicroPath(a) == HasQuery(rawSearch, a) /\ QueryValue(rawSearch, a) # << >>

\* C12: initRouteStateWithURL for app a, when the shared URL holds a path
\* for a, decodes it into the virtual location of a and writes neither the
\* URL nor history.state; otherwise it leaves the virtual location of a as
\* it is and exports it into the URL and history.state under a.
C12_DecodeBeforeExport ==
  \A a \in Apps :
    LET r == InitRouteResult(a)
    IN  IF HasMicroPath(a)
        THEN /\ encodeMicroPath(FullPath(r.loc[a])) = QueryValue(rawSearch, a)
             /\ r.loc[a] = createURL(FullPath(r.loc[a]))
             /\ r.search = rawSearch
             /\ r.state = rawState
             /\ r.replaced = 0
        ELSE /\ r.loc[a] = microLocation[a]
             /\ QueryValue(r.search, a) = encodeMicroPath(FullPath(microLocation[a]))
             /\ r.state.microAppState[a].present
             /\ r.replaced = 1

\* A started on a URL that positioned it: its location is the decoded path,
\* not the one its url gives, and the browser was not written.
C12_Witness ==
  /\ routerHist = [ op |-> "initRouteStateWithURL", app |-> "A",
                    keepRouteState |-> FALSE, had |-> TRUE ]
  /\ microLocation["A"] =
       [ pathname |-> << "/", "d" >>, search |-> << "?", "i" >>, hash |-> << >> ]
  /\ QueryValue(rawSearch, "A") = << "/", "d", "%", "3", "F", "i" >>
  /\ ~rawState.microAppState["A"].present

\* C13: while the app is registered and not unmounted, exactly one of
\* container and keepAliveContainer is not null, also after
\* hiddenKeepAliveApp and after a following showKeepAliveApp.
C13_ExactlyOneContainer ==
  (name \in appInstanceMap /\ state # "UNMOUNT" /\ ~isPrefetch) =>
    (container # NULL) # (keepAliveContainer # NULL)

\* C13 as the code has it: keepAliveContainer is null until the first
\* hiddenKeepAliveApp and no operation resets it; hiddenKeepAliveApp makes
\* container the keepAliveContainer, so both are not null and the same
\* element; the following showKeepAliveApp makes container the element the
\* host passes, and both are not null.
C13_ContainersOfKeepAlive ==
  /\ keepAliveState # NULL => keepAliveContainer = KeepAliveDiv
  /\ \A s \in Steps :
       /\ keepAliveContainer # NULL => s.w.keepAliveContainer = keepAliveContainer
       /\ s.op # "hiddenKeepAliveApp" => s.w.keepAliveContainer = keepAliveContainer
       /\ s.op = "hiddenKeepAliveApp" =>
            s.w.container = KeepAliveDiv /\ s.w.keepAliveContainer = KeepAliveDiv
       /\ s.op = "showKeepAliveApp" =>
            s.w.container = HostContainer /\ s.w.keepAliveContainer = KeepAliveDiv

\* A mounted app was hidden and shown again: both containers are not null.
C13_Witness ==
  /\ keepAliveState = "KEEP_ALIVE_SHOW"
  /\ state = "MOUNTED"
  /\ container = HostContainer
  /\ keepAliveContainer = KeepAliveDiv

\* C14: whenever the state is UNMOUNT, keepAliveState is null, after any
\* sequence of unmount, hiddenKeepAliveApp and showKeepAliveApp.
C14_UnmountClearsKeepAlive ==
  state = "UNMOUNT" => keepAliveState = NULL

\* C15: once the state is UNMOUNT, no operation on the instance (mount,
\* onLoad, onLoadError, a completion of a deferred hook result or of the
\* scripts, hiddenKeepAliveApp, showKeepAliveApp) changes it.
C15_UnmountIsTerminal ==
  state = "UNMOUNT" => \A s \in Steps : s.w.state = "UNMOUNT"

\* C15 as the code has it: once the state is UNMOUNT only mount() changes
\* it, to LOADING_SOURCE_CODE while the resources are not loaded and to
\* MOUNTING (MOUNTED when the mount completes at once) when they are; every
\* other operation leaves the state UNMOUNT.
C15_OnlyMountLeavesUnmount ==
  state = "UNMOUNT" =>
    \A s \in Steps :
      IF s.op = "mount"
      THEN s.w.state = (IF loadSourceLevel # 2 THEN "LOADING_SOURCE_CODE"
                        ELSE IF Has(s.w, "mounted") THEN "MOUNTED" ELSE "MOUNTING")
      ELSE s.w.state = "UNMOUNT"

\* An unmounted app that is still registered, with both a loader signal and
\* a completion of its earlier mount outstanding.
C15_Witness ==
  /\ state = "UNMOUNT"
  /\ name \in appInstanceMap
  /\ hist.nUnmount = 1
  /\ scriptRuns # EmptyBag \/ mountResults # EmptyBag

\* The steps that can call the UMD mount hook.
MountSteps == { s \in Steps : s.op \in {"mount", "onLoad", "execScriptsCallback"} }

\* C16: a failure of the UMD mount hook reaches the host as an error
\* notification, when the hook throws (in the step that detects the hooks or
\* in a remount) and when its deferred result is rejected, and the mount
\* goes on: handleMounted is still called.
C16_MountHookFailureSurfaced ==
  /\ \A s \in MountSteps :
       Has(s.w, "logError") => Has(s.w, "error")
  /\ \A p \in BagToSet(mountResults) :
       Count(MountSettleResult(p, "reject").out, "error") = 1

\* C17: no operation that the host or the loader calls (mount, unmount,
\* onLoad, onLoadError, hiddenKeepAliveApp, showKeepAliveApp) raises an
\* exception into its caller, in any reachable state: also a second unmount
\* and an unmount of an instance whose container is null.
C17_NoExceptionToCaller ==
  \A s \in HostSteps \cup LoaderSteps : ~s.w.exc

\* The place of each effect of an unmount in the order of its steps.
UnmountRank ==
  [ e \in { "state = UNMOUNT", "umdHookUnmount", "logError", "micro:unmount",
            "unmount", "sandbox.stop", "delete window[libraryName]",
            "appInstanceMap.delete", "cloneContainer", "container.innerHTML",
            "TypeError" } |->
      CASE e = "state = UNMOUNT" -> 1
        [] e = "umdHookUnmount" -> 2
        [] e = "logError" -> 3
        [] e = "micro:unmount" -> 4
        [] e = "unmount" -> 5
        [] e = "sandbox.stop" -> 6
        [] e = "delete window[libraryName]" -> 7
        [] e = "appInstanceMap.delete" -> 8
        [] e = "cloneContainer" -> 8
        [] e = "container.innerHTML" -> 9
        [] e = "TypeError" -> 10 ]

\* The effects come in the order of the steps; a teardown that failed may
\* be followed by another.
InUnmountOrder(out) ==
  /\ Range(out) \subseteq DOMAIN UnmountRank
  /\ \A i \in 1..(Len(out) - 1) :
       out[i] = "TypeError" \/ UnmountRank[out[i]] < UnmountRank[out[i + 1]]

\* C18: every unmount sets the state to UNMOUNT and clears keepAliveState
\* first, then calls the UMD unmount hook (if any), then dispatches the
\* unmount event to the sub-app; the teardown comes after that and, for a
\* deferred result, only when it has settled: the unmount notification to
\* the host, the stop of the sandbox, the removal from the registry (when
\* destroying), and last the container cleared and set to null.
C18_UnmountOrder ==
  /\ \A d \in BOOLEAN, h \in UnmountInputs :
       name \in appInstanceMap =>
         LET w == UnmountResult(d, h)
             deferred == umdHookUnmount /\ h = "promise"
         IN  /\ InUnmountOrder(w.out)
             /\ Head(w.out) = "state = UNMOUNT"
             /\ w.state = "UNMOUNT" /\ w.keepAliveState = NULL
             /\ Count(w.out, "umdHookUnmount") = (IF umdHookUnmount THEN 1 ELSE 0)
             /\ Count(w.out, "micro:unmount") = 1
             /\ deferred =>
                  /\ w.out = << "state = UNMOUNT", "umdHookUnmount", "micro:unmount" >>
                  /\ w.sandBoxActive = sandBoxActive
                  /\ w.container = container
                  /\ w.appInstanceMap = appInstanceMap
             /\ ~deferred => Has(w, "unmount")
             /\ Has(w, "container.innerHTML") => w.container = NULL
  /\ \A p \in BagToSet(unmountResults), o \in Settlements :
       LET w == UnmountSettleResult(p, o)
       IN  /\ InUnmountOrder(w.out)
           /\ Head(w.out) = "unmount"
           /\ useSandbox => w.out[2] = "sandbox.stop"
           /\ Has(w, "container.innerHTML") => w.container = NULL

\* An unmount(true) of a UMD app with a sandbox has run all its steps.
C18_Witness ==
  /\ umdHookUnmount
  /\ useSandbox
  /\ hist.nUnmount = 1
  /\ hist.tornDown = 1
  /\ unmountResults = EmptyBag
  /\ ~sandBoxActive
  /\ name \notin appInstanceMap
  /\ container = NULL

\* C19: the step in which the UMD mount hook returns a deferred result
\* leaves the state MOUNTING, as mount() has set it (a callback of the
\* scripts leaves the state as it finds it), and dispatches no mounted
\* notification; while the result of the only mount is pending the state
\* is MOUNTING; when
\* the result resolves while the state is not UNMOUNT the state becomes
\* MOUNTED and one mounted notification is dispatched; when it is rejected
\* one error notification and no mounted notification are dispatched and
\* the state stays as it is, also when the app was unmounted meanwhile.
C19_DeferredMountHook ==
  /\ \A s \in MountSteps :
       s.w.mountResults # mountResults =>
         /\ ~Has(s.w, "mounted")
         /\ s.w.state = (IF s.op = "execScriptsCallback" THEN state ELSE "MOUNTING")
  /\ (mountResults # EmptyBag /\ hist.nUnmount = 0
        /\ hist.nMount = 0 /\ hist.mountsFromOnLoad = 1) => state = "MOUNTING"
  /\ \A p \in BagToSet(mountResults) :
       LET ok == MountSettleResult(p, "resolve")
           ko == MountSettleResult(p, "reject")
       IN  /\ state # "UNMOUNT" =>
                ok.state = "MOUNTED" /\ Count(ok.out, "mounted") = 1
           /\ state = "UNMOUNT" =>
                ok.state = "UNMOUNT" /\ ~Has(ok, "mounted")
           /\ ~Has(ok, "error")
           /\ Count(ko.out, "error") = 1
           /\ ~Has(ko, "mounted")
           /\ ko.state = state

\* The mount hook of the only mount has returned a deferred result, which
\* is pending.
C19_Witness ==
  /\ mountResults # EmptyBag
  /\ umdMode
  /\ state = "MOUNTING"
  /\ hist.nUnmount = 0
  /\ hist.nMount = 0

\* C20: each call of unmount runs the teardown (the unmount notification
\* to the host, the stop of the sandbox, the destroy or the snapshot of the
\* container) at most once, also when the hook's result is deferred and the
\* teardown fails in the continuation of the resolved result.
C20_TeardownAtMostOnce ==
  /\ \A d \in BOOLEAN, h \in UnmountInputs :
       name \in appInstanceMap => Count(UnmountResult(d, h).out, "unmount") <= 1
  /\ \A p \in BagToSet(unmountResults), o \in Settlements :
       LET w == UnmountSettleResult(p, o)
       IN  /\ Count(w.out, "unmount") <= 1
           /\ Count(w.out, "sandbox.stop") <= 1

====
